---- MODULE Spec2Model ----
(***************************************************************************)
(* Admission control and resilient forwarding of the stb-backend gateway.  *)
(*                                                                         *)
(* Three serverless handlers are modelled:                                 *)
(*   "mem"  : the chat handler with the in-memory per-IP limiter           *)
(*   "chat" : the chat handler with the three Upstash tiers (api/chat.js)  *)
(*   "tts"  : the speech-synthesis handler with two Upstash tiers          *)
(* Each is its own process; a behaviour runs one of them (variable         *)
(* variant).  Time is in milliseconds.                                     *)
(***************************************************************************)
EXTENDS Integers, Sequences, FiniteSets, TLC

\* ------------------------------------------------------------------------
\* Program constants
\* ------------------------------------------------------------------------
RATE_LIMIT == 100
RATE_WINDOW == 60 * 60 * 1000
MAX_RETRIES == 2
BASE_DELAY == 1000
OVERLOADED == 503
MinuteMs == 60 * 1000
DayMs == 24 * 60 * 60 * 1000
ChatUserLimit == 50
ChatDailyLimit == 900
ChatRpmLimit == 12
TtsUserLimit == 500
TtsRpmLimit == 10

\* ------------------------------------------------------------------------
\* Bounds of the model
\* ------------------------------------------------------------------------
\* concurrent inbound requests of one behaviour
NumReqs == 2
\* clock ticks per limiter window, and ticks per behaviour
TicksPerWindow == 1
MaxTicks == 2
\* how far past its limit a counter is driven
Overshoot == 2
\* checks per window of the keys other than the one driven to its limit
MaxOther == 1

Reqs == 1 .. NumReqs
Variants == {"mem", "chat", "tts"}
NoAddr == "none"
Undefined == "undefined"
\* the address a request may carry in x-forwarded-for / socket.remoteAddress:
\* client "a" behind a proxy or directly connected, or no address at all
ForwardedFor == {"a", NoAddr}
RemoteAddress == {"a", NoAddr}
IPs == {"a", "unknown"}

\* ------------------------------------------------------------------------
\* Rate-limit tiers (Ratelimit.slidingWindow(limit, window), prefix)
\* ------------------------------------------------------------------------
Tiers == {"chat_daily", "chat_rpm", "chat_user", "tts_rpm", "tts_user"}

TierLimit(t) ==
  CASE t = "chat_daily" -> ChatDailyLimit
    [] t = "chat_rpm" -> ChatRpmLimit
    [] t = "chat_user" -> ChatUserLimit
    [] t = "tts_rpm" -> TtsRpmLimit
    [] t = "tts_user" -> TtsUserLimit

TierWindow(t) ==
  CASE t = "chat_daily" -> DayMs
    [] t = "chat_rpm" -> MinuteMs
    [] t = "chat_user" -> DayMs
    [] t = "tts_rpm" -> MinuteMs
    [] t = "tts_user" -> DayMs

\* the identifiers a tier is called with: 'global' or the client ip
TierKeys(t) == IF t \in {"chat_user", "tts_user"} THEN IPs ELSE {"global"}

StoreKeys == {k \in Tiers \X (IPs \cup {"global"}) : k[2] \in TierKeys(k[1])}

VARIABLES
  variant,        \* which handler this process runs
  now,            \* Date.now()
  requestCounts,  \* the in-memory Map ip -> {count, resetTime}
  redis,          \* TRUE when the Upstash credentials are configured
  store,          \* the counter store: <<tier, key>> -> {count, resetAt}
  req,            \* the in-flight requests
  focus,          \* the limiter a limiter-only behaviour drives
  windows,        \* per limiter key: the reset time last returned, checks under it
  lastCheck       \* the latest limiter decision and its place in its window

vars == <<variant, now, requestCounts, redis, store, req, focus, windows, lastCheck>>

\* the checks seen so far under the reset time this check came back with
CountInWindow(k, reset) ==
  IF windows[k].reset = reset THEN windows[k].n + 1 ELSE 1

\* the checks among them that were allowed
AllowedInWindow(k, reset, allowed) ==
  (IF windows[k].reset = reset THEN windows[k].ok ELSE 0) + (IF allowed THEN 1 ELSE 0)

Counted(k, reset, allowed) ==
  [windows EXCEPT ![k] = [reset |-> reset, n |-> CountInWindow(k, reset),
                          ok |-> AllowedInWindow(k, reset, allowed)]]

\* ------------------------------------------------------------------------
\* In-memory limiter
\* ------------------------------------------------------------------------
NoRecord == [present |-> FALSE, count |-> 0, resetTime |-> 0]

\* the stored record is not read back: every check starts from a new one
GetRecordFresh(counts, ip, t) ==
  [present |-> TRUE, count |-> 0, resetTime |-> t + RATE_WINDOW]

\* requestCounts.get(ip) || { count: 0, resetTime: now + RATE_WINDOW }
GetRecord(counts, ip, t) ==
  IF counts[ip].present
    THEN counts[ip]
    ELSE [present |-> TRUE, count |-> 0, resetTime |-> t + RATE_WINDOW]

\* if (now > record.resetTime) { count = 0; resetTime = now + RATE_WINDOW }
ResetIfExpired(record, t) ==
  IF t > record.resetTime
    THEN [record EXCEPT !.count = 0, !.resetTime = t + RATE_WINDOW]
    ELSE record

\* a check that finds the record over the limit is not counted
IncrementUnlessOver(record) ==
  IF record.count > RATE_LIMIT THEN record ELSE [record EXCEPT !.count = @ + 1]

\* record.count++
Increment(record) == [record EXCEPT !.count = @ + 1]

\* off by one: the RATE_LIMIT-th request is already refused
WithinLimitStrict(record) == record.count < RATE_LIMIT

\* return record.count <= RATE_LIMIT
WithinLimit(record) == record.count <= RATE_LIMIT

\* checkRateLimit(ip) at time t: the record written back and the answer
checkRateLimit(counts, ip, t) ==
  LET record == Increment(ResetIfExpired(GetRecord(counts, ip, t), t))
  IN [counts |-> [counts EXCEPT ![ip] = record],
      allowed |-> WithinLimit(record)]

\* ------------------------------------------------------------------------
\* Counter store behind Ratelimit.limit
\* ------------------------------------------------------------------------
NoCounter == [count |-> 0, resetAt |-> 0]

\* increment(key, window) -> (count, resetAt): a fresh window once now >= resetAt
StoreIncrement(st, k, window, t) ==
  IF st[k].count = 0 \/ t >= st[k].resetAt
    THEN [st EXCEPT ![k] = [count |-> 1, resetAt |-> t + window]]
    ELSE [st EXCEPT ![k] = [count |-> @.count + 1, resetAt |-> @.resetAt]]

\* ratelimit.limit(identifier) -> { success, reset }
TierSuccess(t, count) == count <= TierLimit(t)

Limit(st, t, key, tm) ==
  LET st2 == StoreIncrement(st, <<t, key>>, TierWindow(t), tm)
  IN [store |-> st2,
      success |-> TierSuccess(t, st2[<<t, key>>].count),
      reset |-> st2[<<t, key>>].resetAt]

\* ------------------------------------------------------------------------
\* Requests, decisions, upstream outcomes, responses
\* ------------------------------------------------------------------------
Methods == {"OPTIONS", "GET", "POST"}
\* req.body.message / req.body.text as the handlers test them; NoBody is a
\* request without a body, whose req.body cannot be destructured
NoBody == "nobody"
Messages == {NoBody, Undefined, "hello"}
Texts == {NoBody, Undefined, "nonstring", "blank", "hello"}
\* what chat.sendMessage resolves to
Replies == {"reply1", "reply2"}

\* an upstream failure: err.status (503, or anything else, 429 standing for
\* it), and whether err.message includes 'overloaded' / 'quota'
Errs == [status : {OVERLOADED, 429}, overloaded : BOOLEAN, quota : BOOLEAN]
NoErr == [status |-> -1, overloaded |-> FALSE, quota |-> FALSE]

\* what fetch() of the TTS endpoint yields
FetchOutcomes ==
  [kind : {"notok"}, status : {OVERLOADED, 400}]
    \cup [kind : {"audio", "noaudio", "throws"}, status : {200}]

NoOutcome == [kind |-> "none", status |-> 0]

Allowed == [allowed |-> TRUE, reason |-> Undefined, message |-> Undefined,
            resetTime |-> -1]
Denied(reason, message, reset) ==
  [allowed |-> FALSE, reason |-> reason, message |-> message, resetTime |-> reset]
NoDecision == [allowed |-> FALSE, reason |-> "pending", message |-> "pending",
               resetTime |-> -1]

\* a response: its status and the fields of its JSON body; resetTime is -1
\* when the body has no such field
NoResp == [status |-> 0, error |-> Undefined, reason |-> Undefined,
           payload |-> Undefined, resetTime |-> -1]
Resp(status, error, reason, payload) ==
  [status |-> status, error |-> error, reason |-> reason, payload |-> payload,
   resetTime |-> -1]

Idle ==
  [pc |-> "idle", method |-> "none", ip |-> "none", chk |-> "none",
   decision |-> NoDecision, charged |-> <<>>, storeFailed |-> FALSE,
   built |-> FALSE, retries |-> 0, attempts |-> 0, overloads |-> 0,
   waited |-> 0, result |-> Undefined, lastErr |-> NoErr, resp |-> NoResp,
   body |-> Undefined, upstream |-> NoOutcome, sent |-> 0]
\* body: req.body.text of a speech request until the handler has validated it

\* req.headers['x-forwarded-for'] || req.socket.remoteAddress || 'unknown'
clientIp(xff, remote) ==
  IF xff # NoAddr THEN xff ELSE IF remote # NoAddr THEN remote ELSE "unknown"

\* requests are numbered in their order of arrival
Arrives(r) == req[r].pc = "idle" /\ \A p \in Reqs : p < r => req[p].pc # "idle"

\* res.status(s).json(...) ends the handler; sent counts the responses
Respond(q, resp) == [q EXCEPT !.pc = "done", !.resp = resp, !.sent = @ + 1]

\* an exception outside every try block: the handler's promise rejects and
\* the handler has sent nothing
Throws(q) == [q EXCEPT !.pc = "done"]

\* OPTIONS and non-POST are answered before anything else
MethodResponse(method) ==
  IF method = "OPTIONS"
    THEN Resp(200, Undefined, Undefined, Undefined)
    ELSE Resp(405, "method_not_allowed", Undefined, Undefined)

\* ------------------------------------------------------------------------
\* Chat handler: validation, retry loop, error mapping
\* ------------------------------------------------------------------------
\* the catch block of the chat handlers
ErrorResponse(err) ==
  IF err.status = OVERLOADED \/ err.overloaded
    THEN Resp(503, "overloaded_msg", Undefined, Undefined)
    ELSE IF err.quota
      THEN Resp(503, "quota_msg", Undefined, Undefined)
      ELSE Resp(500, "failed_chat", Undefined, Undefined)

\* every failure is retried while retries are left
ShouldRetryAny(err, retries) == retries < MAX_RETRIES

\* the retry test without its bound on retries
ShouldRetryUnbounded(err, retries) == err.status = OVERLOADED

\* one retry short
ShouldRetryEarlyStop(err, retries) == err.status = OVERLOADED /\ retries + 1 < MAX_RETRIES

\* err.status === 503 && retries < MAX_RETRIES
ShouldRetry(err, retries) == err.status = OVERLOADED /\ retries < MAX_RETRIES

\* the same delay before every retry
BackoffDelayFlat(retries) == BASE_DELAY

\* setTimeout(resolve, 1000 * retries)
BackoffDelay(retries) == BASE_DELAY * retries

\* the loop bound excludes the last retry
LoopContinuesStrict(retries) == retries < MAX_RETRIES

\* while (retries <= MAX_RETRIES)
LoopContinues(retries) == retries <= MAX_RETRIES

\* top of the retry loop: the next chat.sendMessage is issued, or the loop is
\* left with result still undefined and `result.response` throws a TypeError
EnterLoop(q) ==
  IF LoopContinues(q.retries)
    THEN [q EXCEPT !.pc = "send", !.attempts = @ + 1]
    ELSE Respond(q, Resp(500, "failed_chat", Undefined, Undefined))

\* after admission: body validation, model and chat construction, first call
AfterAdmission(q, message) ==
  IF message = NoBody
    THEN Respond(q, Resp(500, "failed_chat", Undefined, Undefined))
    ELSE IF message = Undefined
      THEN Respond(q, Resp(400, "message_required", Undefined, Undefined))
      ELSE EnterLoop([q EXCEPT !.built = TRUE])

\* ------------------------------------------------------------------------
\* "mem": the chat handler with the in-memory limiter
\* ------------------------------------------------------------------------
MemReceive(r, method, xff, remote, message) ==
  /\ variant = "mem"
  /\ Arrives(r)
  /\ LET q0 == [req[r] EXCEPT !.method = method]
     IN IF method # "POST"
          THEN /\ req' = [req EXCEPT ![r] = Respond(q0, MethodResponse(method))]
               /\ UNCHANGED <<requestCounts, windows>>
          ELSE LET ip == clientIp(xff, remote)
                   chk == checkRateLimit(requestCounts, ip, now)
                   q1 == [q0 EXCEPT !.chk = "done",
                            !.decision = IF chk.allowed THEN Allowed
                              ELSE Denied(Undefined, "rate_limit_exceeded", -1)]
               IN /\ requestCounts' = chk.counts
                  /\ windows' = Counted(<<"mem", ip>>, chk.counts[ip].resetTime,
                                        chk.allowed)
                  /\ req' = [req EXCEPT ![r] =
                       IF ~chk.allowed
                         THEN Respond(q1, Resp(429, "rate_limit_exceeded",
                                               Undefined, Undefined))
                         ELSE AfterAdmission(q1, message)]
  /\ UNCHANGED <<variant, now, redis, store, focus, lastCheck>>

\* chat.sendMessage resolves: result is set, the loop is left, 200 is sent
SendSucceeds(r, reply) ==
  /\ req[r].pc = "send"
  /\ req' = [req EXCEPT ![r] =
       Respond([@ EXCEPT !.result = reply], Resp(200, Undefined, Undefined, reply))]
  /\ UNCHANGED <<variant, now, requestCounts, redis, store, focus, windows, lastCheck>>

\* chat.sendMessage rejects with err: retry after a backoff, or rethrow
SendFails(r, err) ==
  /\ req[r].pc = "send"
  /\ LET q == [req[r] EXCEPT !.lastErr = err,
                 !.overloads = IF err.status = OVERLOADED THEN @ + 1 ELSE @]
     IN req' = [req EXCEPT ![r] =
          IF ShouldRetry(err, q.retries)
            THEN [q EXCEPT !.retries = @ + 1,
                           !.waited = @ + BackoffDelay(q.retries + 1),
                           !.pc = "backoff"]
            ELSE Respond(q, ErrorResponse(err))]
  /\ UNCHANGED <<variant, now, requestCounts, redis, store, focus, windows, lastCheck>>

\* the backoff timer fires and the loop goes round (err is out of scope)
BackoffElapsed(r) ==
  /\ req[r].pc = "backoff"
  /\ req' = [req EXCEPT ![r] = EnterLoop([@ EXCEPT !.lastErr = NoErr])]
  /\ UNCHANGED <<variant, now, requestCounts, redis, store, focus, windows, lastCheck>>

\* ------------------------------------------------------------------------
\* "chat": the chat handler with the Upstash tiers (api/chat.js)
\* ------------------------------------------------------------------------
\* the read as it would be were the decision an allowed one
PromiseFieldAllowed(field) == IF field = "allowed" THEN "true" ELSE Undefined

\* a property of the decision read off the promise checkRateLimit returned,
\* which the handler does not await: a Promise has no such property
PromiseField(field) == Undefined

\* JavaScript truthiness of a property value
Truthy(v) == v # Undefined /\ v # "false"

\* checkRateLimit up to its first await: not configured -> { allowed: true },
\* else the first tier's limit() call is in flight
StartCheck(q, firstTier) ==
  IF ~redis
    THEN [q EXCEPT !.chk = "done", !.decision = Allowed]
    ELSE [q EXCEPT !.chk = firstTier]

ChatReceive(r, method, xff, remote, message) ==
  /\ variant = "chat"
  /\ Arrives(r)
  /\ LET q0 == [req[r] EXCEPT !.method = method]
     IN IF method # "POST"
          THEN req' = [req EXCEPT ![r] = Respond(q0, MethodResponse(method))]
          ELSE LET q1 == StartCheck([q0 EXCEPT !.ip = clientIp(xff, remote)],
                                    "daily")
               IN req' = [req EXCEPT ![r] =
                    IF ~Truthy(PromiseField("allowed"))
                      THEN Respond(q1, Resp(429, PromiseField("message"),
                                            PromiseField("reason"), Undefined))
                      ELSE AfterAdmission(q1, message)]
  /\ UNCHANGED <<variant, now, requestCounts, redis, store, focus, windows, lastCheck>>

\* a tier that goes on to the next tier although it denied
TierStepNoStop(q, res, tier, denial, nextChk) ==
  LET q1 == [q EXCEPT !.charged = Append(@, tier)]
  IN IF nextChk = "done"
       THEN [q1 EXCEPT !.chk = "done",
                       !.decision = IF res.success THEN Allowed ELSE denial]
       ELSE [q1 EXCEPT !.chk = nextChk]

\* one tier of a checkRateLimit: limit() returns, the tier denies or the
\* check moves on to the next tier (or ends allowed)
TierStep(q, res, tier, denial, nextChk) ==
  LET q1 == [q EXCEPT !.charged = Append(@, tier)]
  IN IF ~res.success
       THEN [q1 EXCEPT !.chk = "done", !.decision = denial]
       ELSE IF nextChk = "done"
         THEN [q1 EXCEPT !.chk = "done", !.decision = Allowed]
         ELSE [q1 EXCEPT !.chk = nextChk]

\* failing closed
FailClosed(q) ==
  [q EXCEPT !.chk = "done", !.storeFailed = TRUE,
            !.decision = Denied(Undefined, "rate_limit_error", -1)]

\* catch (error) { return { allowed: true } }
FailOpen(q) == [q EXCEPT !.chk = "done", !.decision = Allowed, !.storeFailed = TRUE]

ChatLimitDaily(r) ==
  /\ variant = "chat"
  /\ req[r].chk = "daily"
  /\ LET res == Limit(store, "chat_daily", "global", now)
     IN /\ store' = res.store
        /\ req' = [req EXCEPT ![r] = TierStep(@, res, "chat_daily",
                     Denied("daily_limit", "daily_msg", res.reset), "rpm")]
  /\ UNCHANGED <<variant, now, requestCounts, redis, focus, windows, lastCheck>>

ChatLimitRpm(r) ==
  /\ variant = "chat"
  /\ req[r].chk = "rpm"
  /\ LET res == Limit(store, "chat_rpm", "global", now)
     IN /\ store' = res.store
        /\ req' = [req EXCEPT ![r] = TierStep(@, res, "chat_rpm",
                     Denied("rpm_limit", "rpm_msg", res.reset), "user")]
  /\ UNCHANGED <<variant, now, requestCounts, redis, focus, windows, lastCheck>>

ChatLimitUser(r) ==
  /\ variant = "chat"
  /\ req[r].chk = "user"
  /\ LET res == Limit(store, "chat_user", req[r].ip, now)
     IN /\ store' = res.store
        /\ req' = [req EXCEPT ![r] = TierStep(@, res, "chat_user",
                     Denied("user_limit", "user_msg", res.reset), "done")]
  /\ UNCHANGED <<variant, now, requestCounts, redis, focus, windows, lastCheck>>

\* a limit() call rejects (store unreachable): the check fails open
ChatLimitThrows(r) ==
  /\ variant = "chat"
  /\ req[r].chk \in {"daily", "rpm", "user"}
  /\ req' = [req EXCEPT ![r] = FailOpen(@)]
  /\ UNCHANGED <<variant, now, requestCounts, redis, store, focus, windows, lastCheck>>

\* ------------------------------------------------------------------------
\* "tts": the speech-synthesis handler
\* ------------------------------------------------------------------------
\* !text || typeof text !== 'string' || text.trim().length === 0
TextInvalid(text) == text \in {Undefined, "nonstring", "blank"}

\* the handler going on whatever the decision
TtsAfterCheckUnguarded(q) ==
  LET q1 == [q EXCEPT !.body = Undefined]
  IN IF q.body = NoBody
       THEN Throws(q1)
       ELSE IF TextInvalid(q.body)
         THEN Respond(q1, Resp(400, "text_required", Undefined, Undefined))
         ELSE [q1 EXCEPT !.built = TRUE, !.attempts = @ + 1, !.pc = "fetch"]

\* the handler once `await checkRateLimit(clientIp)` has resolved
TtsAfterCheck(q) ==
  LET q1 == [q EXCEPT !.body = Undefined]
  IN IF ~q.decision.allowed
       THEN Respond(q1, Resp(429, q.decision.message, Undefined, Undefined))
       ELSE IF q.body = NoBody
         THEN Throws(q1)
         ELSE IF TextInvalid(q.body)
           THEN Respond(q1, Resp(400, "text_required", Undefined, Undefined))
           ELSE [q1 EXCEPT !.built = TRUE, !.attempts = @ + 1, !.pc = "fetch"]

\* the text is validated on arrival, before the check has resolved
TtsResumeValidatesFirst(q) ==
  IF q.chk = "done" THEN TtsAfterCheck(q)
  ELSE IF q.pc = "check" /\ TextInvalid(q.body)
    THEN Respond(q, Resp(400, "text_required", Undefined, Undefined))
    ELSE q

\* the check has resolved (chk = "done"): the handler goes on
TtsResume(q) == IF q.chk = "done" THEN TtsAfterCheck(q) ELSE q

TtsReceive(r, method, xff, remote, text) ==
  /\ variant = "tts"
  /\ Arrives(r)
  /\ LET q0 == [req[r] EXCEPT !.method = method]
     IN IF method # "POST"
          THEN req' = [req EXCEPT ![r] = Respond(q0, MethodResponse(method))]
          ELSE req' = [req EXCEPT ![r] =
                 TtsResume(StartCheck([q0 EXCEPT !.ip = clientIp(xff, remote),
                                                 !.body = text, !.pc = "check"],
                                      "rpm"))]
  /\ UNCHANGED <<variant, now, requestCounts, redis, store, focus, windows, lastCheck>>

TtsLimitRpm(r) ==
  /\ variant = "tts"
  /\ req[r].chk = "rpm"
  /\ LET res == Limit(store, "tts_rpm", "global", now)
     IN /\ store' = res.store
        /\ req' = [req EXCEPT ![r] = TtsResume(TierStep(@, res, "tts_rpm",
                     Denied(Undefined, "tts_rpm_msg", -1), "user"))]
  /\ UNCHANGED <<variant, now, requestCounts, redis, focus, windows, lastCheck>>

TtsLimitUser(r) ==
  /\ variant = "tts"
  /\ req[r].chk = "user"
  /\ LET res == Limit(store, "tts_user", req[r].ip, now)
     IN /\ store' = res.store
        /\ req' = [req EXCEPT ![r] = TtsResume(TierStep(@, res, "tts_user",
                     Denied(Undefined, "tts_user_msg", -1), "done"))]
  /\ UNCHANGED <<variant, now, requestCounts, redis, focus, windows, lastCheck>>

TtsLimitThrows(r) ==
  /\ variant = "tts"
  /\ req[r].chk \in {"rpm", "user"}
  /\ req' = [req EXCEPT ![r] = TtsResume(FailOpen(@))]
  /\ UNCHANGED <<variant, now, requestCounts, redis, store, focus, windows, lastCheck>>

\* what the handler answers to the outcome of fetch()
FetchResponse(outcome) ==
  CASE outcome.kind = "notok" -> Resp(502, "gemini_tts_error", Undefined, Undefined)
    [] outcome.kind = "noaudio" -> Resp(502, "no_audio", Undefined, Undefined)
    [] outcome.kind = "audio" -> Resp(200, Undefined, Undefined, "audio")
    [] outcome.kind = "throws" -> Resp(500, "failed_tts", Undefined, Undefined)

TtsFetchDone(r, outcome) ==
  /\ variant = "tts"
  /\ req[r].pc = "fetch"
  /\ req' = [req EXCEPT ![r] =
       Respond([@ EXCEPT !.upstream = outcome], FetchResponse(outcome))]
  /\ UNCHANGED <<variant, now, requestCounts, redis, store, focus, windows, lastCheck>>

\* ------------------------------------------------------------------------
\* Clock
\* ------------------------------------------------------------------------
\* the window the clock is scaled to
ClockWindow ==
  IF focus \in Tiers THEN TierWindow(focus)
  ELSE IF focus = "mem" \/ variant = "mem" THEN RATE_WINDOW
  ELSE MinuteMs

TickMs == ClockWindow \div TicksPerWindow

Tick ==
  /\ now + TickMs <= MaxTicks * TickMs
  /\ now' = now + TickMs
  /\ UNCHANGED <<variant, requestCounts, redis, store, req, focus, windows, lastCheck>>

\* ------------------------------------------------------------------------
\* The handlers
\* ------------------------------------------------------------------------
VariantTiers(v) ==
  CASE v = "chat" -> {"chat_daily", "chat_rpm", "chat_user"}
    [] v = "tts" -> {"tts_rpm", "tts_user"}
    [] OTHER -> {}

EmptyCounts == [ip \in IPs |-> NoRecord]
EmptyStore == [k \in StoreKeys |-> NoCounter]
LimiterKeys == ({"mem"} \X IPs) \cup StoreKeys
NoWindows == [k \in LimiterKeys |-> [reset |-> -1, n |-> 0, ok |-> 0]]
NoCheck == [key |-> <<"none", "none">>, allowed |-> TRUE, n |-> 0, limit |-> 0]

\* counters one check short of their limit, as left by earlier requests of
\* the window that started at time 0; the requests of a handler behaviour all
\* arrive within that window (the clock runs in SpecLimit)
NearCounts(hot) ==
  [ip \in IPs |-> IF ip \in hot
     THEN [present |-> TRUE, count |-> RATE_LIMIT - 1, resetTime |-> RATE_WINDOW]
     ELSE NoRecord]
\* the checks that left those counts: all of them allowed
NearWindows(hot) ==
  [k \in LimiterKeys |-> IF k[1] = "mem" /\ k[2] \in hot
     THEN [reset |-> RATE_WINDOW, n |-> RATE_LIMIT - 1, ok |-> RATE_LIMIT - 1]
     ELSE [reset |-> -1, n |-> 0, ok |-> 0]]
NearStore(hot) ==
  [k \in StoreKeys |-> IF k[1] \in hot
     THEN [count |-> TierLimit(k[1]) - 1, resetAt |-> TierWindow(k[1])]
     ELSE NoCounter]

Init ==
  /\ variant \in Variants
  /\ focus = "none"
  /\ now = 0
  /\ redis \in (IF variant = "mem" THEN {FALSE} ELSE BOOLEAN)
  /\ \E hot \in (IF variant = "mem" THEN {{}, {"a"}} ELSE {{}}) :
       /\ requestCounts = NearCounts(hot)
       /\ windows = NearWindows(hot)
  /\ store \in (IF redis
       THEN {NearStore(hot) : hot \in SUBSET VariantTiers(variant)}
       ELSE {EmptyStore})
  /\ req = [r \in Reqs |-> Idle]
  /\ lastCheck = NoCheck

Next ==
  \/ \E r \in Reqs, m \in Methods, xff \in ForwardedFor, remote \in RemoteAddress,
        message \in Messages : MemReceive(r, m, xff, remote, message)
  \/ \E r \in Reqs, m \in Methods, xff \in ForwardedFor, remote \in RemoteAddress,
        message \in Messages : ChatReceive(r, m, xff, remote, message)
  \/ \E r \in Reqs, m \in Methods, xff \in ForwardedFor, remote \in RemoteAddress,
        text \in Texts : TtsReceive(r, m, xff, remote, text)
  \/ \E r \in Reqs, reply \in Replies : SendSucceeds(r, reply)
  \/ \E r \in Reqs, err \in Errs : SendFails(r, err)
  \/ \E r \in Reqs : BackoffElapsed(r)
  \/ \E r \in Reqs : ChatLimitDaily(r)
  \/ \E r \in Reqs : ChatLimitRpm(r)
  \/ \E r \in Reqs : ChatLimitUser(r)
  \/ \E r \in Reqs : ChatLimitThrows(r)
  \/ \E r \in Reqs : TtsLimitRpm(r)
  \/ \E r \in Reqs : TtsLimitUser(r)
  \/ \E r \in Reqs : TtsLimitThrows(r)
  \/ \E r \in Reqs, outcome \in FetchOutcomes : TtsFetchDone(r, outcome)

Spec == Init /\ [][Next]_vars

\* ------------------------------------------------------------------------
\* The limiters alone, from empty counters, with the clock running
\* ------------------------------------------------------------------------
Limiters == {"mem"} \cup Tiers

\* the key driven past its limit; the other keys get MaxOther checks a window
DrivenKey(l) == IF l \in {"mem", "chat_user", "tts_user"} THEN "a" ELSE "global"
CheckCap(l, key, limit) == IF key = DrivenKey(l) THEN limit + Overshoot ELSE MaxOther

Observe(k, reset, allowed, limit) ==
  /\ windows' = Counted(k, reset, allowed)
  /\ lastCheck' = [key |-> k, allowed |-> allowed, n |-> CountInWindow(k, reset),
                   limit |-> limit]

\* one call of the in-memory checkRateLimit(ip)
CheckMem(ip) ==
  /\ focus = "mem"
  /\ requestCounts[ip].count < CheckCap("mem", ip, RATE_LIMIT)
  /\ LET chk == checkRateLimit(requestCounts, ip, now)
     IN /\ requestCounts' = chk.counts
        /\ Observe(<<"mem", ip>>, chk.counts[ip].resetTime, chk.allowed, RATE_LIMIT)
  /\ UNCHANGED <<variant, now, redis, store, req, focus>>

\* one call of a tier's limit(key)
CheckTier(key) ==
  /\ focus \in Tiers
  /\ key \in TierKeys(focus)
  /\ store[<<focus, key>>].count < CheckCap(focus, key, TierLimit(focus))
  /\ LET res == Limit(store, focus, key, now)
     IN /\ store' = res.store
        /\ Observe(<<focus, key>>, res.reset, res.success, TierLimit(focus))
  /\ UNCHANGED <<variant, now, requestCounts, redis, req, focus>>

InitLimit ==
  /\ variant = "none"
  /\ focus \in Limiters
  /\ now = 0
  /\ redis = (focus \in Tiers)
  /\ requestCounts = EmptyCounts
  /\ store = EmptyStore
  /\ req = [r \in Reqs |-> Idle]
  /\ windows = NoWindows
  /\ lastCheck = NoCheck

NextLimit ==
  \/ \E ip \in IPs : CheckMem(ip)
  \/ \E key \in IPs \cup {"global"} : CheckTier(key)
  \/ Tick

SpecLimit == InitLimit /\ [][NextLimit]_vars

\* ------------------------------------------------------------------------
\* Properties
\* ------------------------------------------------------------------------
ChatPosts == {r \in Reqs : variant \in {"mem", "chat"} /\ req[r].method = "POST"}

\* C1: under SpecLimit, for the in-memory limiter and for every tier, the
\* n-th check of a key under one reset time is allowed exactly when n is at
\* most the limit: the 1st to L-th are allowed, the (L+1)-th is denied,
\* whatever checks of other keys come in between.
C1_LimitPerWindow ==
  lastCheck.n > 0 => (lastCheck.allowed <=> lastCheck.n <= lastCheck.limit)

\* the 101st check of ip "a" in one window is denied, after a check of the
\* 'unknown' key
C1_Witness ==
  /\ lastCheck.key = <<"mem", "a">>
  /\ lastCheck.n = RATE_LIMIT + 1
  /\ ~lastCheck.allowed
  /\ windows[<<"mem", "unknown">>].n > 0

\* the tiers of a handler in the order its checkRateLimit calls them
TierOrder ==
  CASE variant = "chat" -> <<"chat_daily", "chat_rpm", "chat_user">>
    [] variant = "tts" -> <<"tts_rpm", "tts_user">>
    [] OTHER -> <<>>

IsPrefix(s, t) == Len(s) <= Len(t) /\ \A i \in 1 .. Len(s) : s[i] = t[i]

\* the tier a denial names, by its reason (chat) or its message (tts)
DenialTier(decision) ==
  CASE decision.reason = "daily_limit" -> "chat_daily"
    [] decision.reason = "rpm_limit" -> "chat_rpm"
    [] decision.reason = "user_limit" -> "chat_user"
    [] decision.message = "tts_rpm_msg" -> "tts_rpm"
    [] decision.message = "tts_user_msg" -> "tts_user"
    [] OTHER -> "none"

\* the request whose check made this step's increment of counter k
ChargedBy(r, k) ==
  /\ req'[r].charged = Append(req[r].charged, k[1])
  /\ k[2] \in {"global", req[r].ip}

C2_Step ==
  /\ \A r \in Reqs :
       \* the tiers are charged in the handler's order, none skipped
       /\ IsPrefix(req'[r].charged, TierOrder)
       \* a denial names the last tier charged: nothing after it was charged
       /\ (req'[r].chk = "done" /\ ~req'[r].decision.allowed /\ variant # "mem")
            => /\ req'[r].charged # <<>>
               /\ req'[r].charged[Len(req'[r].charged)] = DenialTier(req'[r].decision)
       \* a finished check charges nothing more
       /\ req[r].chk = "done" => req'[r].charged = req[r].charged
  /\ \A k \in StoreKeys : store'[k] # store[k] =>
       \* a step increments one counter, for one request, at its next tier
       /\ \A k2 \in StoreKeys \ {k} : store'[k2] = store[k2]
       /\ \E r \in Reqs : ChargedBy(r, k)
       \* and a violated tier ends that request's check with that tier's denial
       /\ \A r \in Reqs : (ChargedBy(r, k) /\ store'[k].count > TierLimit(k[1]))
            => /\ req'[r].chk = "done"
               /\ ~req'[r].decision.allowed
               /\ DenialTier(req'[r].decision) = k[1]

\* C2: checkRateLimit charges the tiers in the order global-daily,
\* global-per-minute, per-caller and stops at the first violated tier: the
\* denial names that tier and no later tier's counter is incremented.
C2_TierOrder == [][C2_Step]_vars

\* a request denied by the global-daily tier while its caller's per-caller
\* counter is already at its limit: only the daily tier was charged
C2_Witness ==
  \E r \in Reqs :
    /\ variant = "chat"
    /\ req[r].chk = "done"
    /\ req[r].decision.reason = "daily_limit"
    /\ req[r].charged = <<"chat_daily">>
    /\ store[<<"chat_user", req[r].ip>>].count >= ChatUserLimit
    /\ store[<<"chat_daily", "global">>].count > ChatDailyLimit

C4_FiftyThenUserLimit ==
  \A r \in Reqs :
    (variant = "chat" /\ req[r].method = "POST" /\ req[r].pc = "done")
    => /\ req[r].resp.status = 429 =>
            /\ req[r].chk = "done"
            /\ ~req[r].decision.allowed
            /\ req[r].resp.reason = req[r].decision.reason
            /\ req[r].resp.resetTime = req[r].decision.resetTime
       /\ (req[r].chk = "done" /\ req[r].decision.allowed) => req[r].resp.status # 429

\* requests of the chat handlers that have left the retry loop
LoopDone == {r \in ChatPosts : req[r].pc = "done" /\ req[r].attempts > 0}

\* C5: a request whose every upstream attempt failed with status 503 has
\* made exactly MAX_RETRIES retries and MAX_RETRIES + 1 attempts and ended in
\* a failure; no request ever makes a further attempt.
C5_RetriesExhausted ==
  \A r \in ChatPosts :
    /\ req[r].attempts <= MAX_RETRIES + 1
    /\ (r \in LoopDone /\ req[r].overloads = req[r].attempts)
         => /\ req[r].retries = MAX_RETRIES
            /\ req[r].attempts = MAX_RETRIES + 1
            /\ req[r].result = Undefined
            /\ req[r].resp.status >= 500

C5_Witness ==
  \E r \in LoopDone :
    /\ req[r].overloads = MAX_RETRIES + 1
    /\ req[r].attempts = MAX_RETRIES + 1
    /\ req[r].resp.status = 503

\* C6: after two attempts failed with status 503 a third attempt is made,
\* and when it succeeds the client gets 200 with its payload: 3 attempts.
C6_ThirdAttemptSucceeds ==
  \A r \in ChatPosts :
    /\ req[r].overloads = 2
         => \/ req[r].pc \in {"backoff", "send"}
            \/ req[r].pc = "done" /\ req[r].attempts = 3
    /\ (r \in LoopDone /\ req[r].overloads = 2 /\ req[r].result # Undefined)
         => /\ req[r].attempts = 3
            /\ req[r].resp.status = 200
            /\ req[r].resp.payload = req[r].result

C6_Witness ==
  \E r \in LoopDone :
    /\ req[r].overloads = 2
    /\ req[r].attempts = 3
    /\ req[r].resp.status = 200
    /\ req[r].resp.payload = "reply2"

\* C7 (as claimed): an upstream failure whose message reports quota
\* exhaustion ends the request at once, whatever its status: there is no
\* backoff and no further attempt after it.
C7_QuotaNeverRetried ==
  \A r \in ChatPosts : req[r].lastErr.quota => req[r].pc = "done"

\* C8: in every handler the upstream payload is built and the upstream is
\* called only after the request's check has completed with allowed = true; a
\* request whose check denied it is answered 429 and makes no upstream call.
C8_AdmitBeforeForward ==
  \A r \in Reqs :
    /\ (req[r].built \/ req[r].attempts > 0)
         => req[r].chk = "done" /\ req[r].decision.allowed
    /\ (req[r].chk = "done" /\ ~req[r].decision.allowed)
         => /\ req[r].pc = "done"
            /\ req[r].resp.status = 429
            /\ ~req[r].built
            /\ req[r].attempts = 0
            /\ req[r].retries = 0

\* both cases at once: one request forwarded after both tiers passed,
\* another refused by a tier and never forwarded
C8_Witness ==
  \E r, p \in Reqs :
    /\ variant = "tts"
    /\ req[r].pc = "fetch"
    /\ req[r].charged = <<"tts_rpm", "tts_user">>
    /\ req[p].pc = "done"
    /\ ~req[p].decision.allowed
    /\ req[p].resp.status = 429

\* C9 (as claimed): the handler that does not await the check never answers
\* 429.
C9_AdmissionSkipped ==
  \A r \in Reqs :
    (variant = "chat" /\ req[r].method = "POST") => req[r].resp.status # 429

\* C9 (amended): the handler that does not await the check answers every
\* POST 429, with no error text and no reason, before any tier has answered;
\* no POST reaches validation or the upstream, whatever the counters hold.
C9_EveryPostRefused ==
  \A r \in Reqs :
    (variant = "chat" /\ req[r].method = "POST")
    => /\ req[r].pc = "done"
       /\ req[r].resp = Resp(429, Undefined, Undefined, Undefined)
       /\ ~req[r].built
       /\ req[r].attempts = 0

\* a POST answered 429 although its check, run to the end, allowed it
C9_Witness ==
  \E r \in Reqs :
    /\ variant = "chat"
    /\ req[r].method = "POST"
    /\ req[r].charged = <<"chat_daily", "chat_rpm", "chat_user">>
    /\ req[r].decision = Allowed
    /\ req[r].resp.status = 429

\* C10 (as claimed): an upstream that reports unavailable/overloaded, by
\* status 503 or by its message, is answered 503 in every handler.
C10_OverloadIs503 ==
  \A r \in Reqs :
    (req[r].pc = "done"
       /\ \/ req[r].lastErr.status = OVERLOADED
          \/ req[r].lastErr.overloaded
          \/ req[r].upstream.kind = "notok" /\ req[r].upstream.status = OVERLOADED)
    => req[r].resp.status = 503

\* C11: the retry loop of one request makes at most MAX_RETRIES + 1 = 3
\* upstream attempts, each retry is followed by exactly one further attempt,
\* and the loop is left only with a result (answered 200) or by the failure
\* of its last attempt (answered by the catch block): the response step is
\* never reached with result undefined and no failure raised.
C11_LoopTerminates ==
  \A r \in ChatPosts :
    /\ req[r].attempts <= MAX_RETRIES + 1
    /\ req[r].retries <= MAX_RETRIES
    /\ req[r].pc = "send" => req[r].attempts = req[r].retries + 1
    /\ req[r].pc = "backoff" => req[r].attempts = req[r].retries
    /\ r \in LoopDone =>
         /\ req[r].attempts = req[r].retries + 1
         /\ \/ /\ req[r].result # Undefined
               /\ req[r].resp = Resp(200, Undefined, Undefined, req[r].result)
            \/ /\ req[r].result = Undefined
               /\ req[r].lastErr # NoErr
               /\ req[r].resp = ErrorResponse(req[r].lastErr)

\* both exits of the loop after the last permitted attempt
C11_Witness ==
  \E r, p \in LoopDone :
    /\ req[r].attempts = MAX_RETRIES + 1
    /\ req[r].result # Undefined
    /\ req[p].attempts = MAX_RETRIES + 1
    /\ req[p].result = Undefined
    /\ req[p].lastErr.status = OVERLOADED

\* a failure that reports neither an overload nor a quota condition
OtherFailure(err) ==
  err # NoErr /\ err.status # OVERLOADED /\ ~err.overloaded /\ ~err.quota

\* C12: a failure of the upstream call that is neither an overload nor a
\* quota condition ends the request at once: no attempt and no backoff
\* follows it and the answer is 500; when it is the outcome of the first
\* attempt the request has made exactly one attempt and waited 0 ms.
C12_OtherFailureIsFatal ==
  \A r \in ChatPosts :
    OtherFailure(req[r].lastErr)
    => /\ req[r].pc = "done"
       /\ req[r].resp = Resp(500, "failed_chat", Undefined, Undefined)
       /\ req[r].attempts = req[r].overloads + 1
       /\ req[r].overloads = 0 =>
            /\ req[r].attempts = 1
            /\ req[r].retries = 0
            /\ req[r].waited = 0

C12_Witness ==
  \E r \in LoopDone :
    /\ OtherFailure(req[r].lastErr)
    /\ req[r].attempts = 1
    /\ req[r].waited = 0
    /\ req[r].resp.status = 500

\* C13 (as claimed): a request ended by a failure that reports quota
\* exhaustion is answered 503 with the quota message, never with the
\* overload message, whatever status and message text the failure carries.
C13_QuotaMessage ==
  \A r \in ChatPosts :
    (req[r].pc = "done" /\ req[r].lastErr.quota)
    => req[r].resp = Resp(503, "quota_msg", Undefined, Undefined)

\* C14: the delay before retry k is k * 1000 ms: a request has waited
\* 1000 ms in all once its first retry is scheduled and 3000 ms once its
\* second is (1000 before the second attempt, 2000 before the third); a
\* request that exhausted its retries has waited 3000 ms, nothing being
\* added after its last failed attempt.
C14_LinearBackoff ==
  \A r \in ChatPosts :
    /\ req[r].retries = 0 => req[r].waited = 0
    /\ req[r].retries = 1 => req[r].waited = 1000
    /\ req[r].retries = 2 => req[r].waited = 1000 + 2000
    /\ (r \in LoopDone /\ req[r].overloads = MAX_RETRIES + 1)
         => req[r].waited = 3000

\* retries exhausted: three attempts failed, 3000 ms of backoff
C14_Witness ==
  \E r \in LoopDone :
    /\ req[r].attempts = MAX_RETRIES + 1
    /\ req[r].overloads = MAX_RETRIES + 1
    /\ req[r].waited = 3000
    /\ req[r].resp.status = 503

\* C15: with requests suspended at their upstream call or backoff while
\* others arrive, the in-memory limiter loses no update: the count stored
\* for an ip is exactly the number of checkRateLimit calls made for it under
\* the record's reset time, and at most RATE_LIMIT of them were allowed.
C15_NoLostUpdate ==
  \A ip \in IPs :
    (variant = "mem" /\ requestCounts[ip].present)
    => /\ windows[<<"mem", ip>>].reset = requestCounts[ip].resetTime
       /\ requestCounts[ip].count = windows[<<"mem", ip>>].n
       /\ windows[<<"mem", ip>>].ok <= RATE_LIMIT
       /\ windows[<<"mem", ip>>].ok <= windows[<<"mem", ip>>].n

\* while one request is suspended at its upstream call or its backoff, a
\* check of the same ip by another request has been counted and refused
C15_Witness ==
  \E r, p \in Reqs :
    /\ variant = "mem"
    /\ r # p
    /\ req[r].pc \in {"send", "backoff"}
    /\ req[p].pc = "done"
    /\ req[p].resp.status = 429
    /\ requestCounts["a"].count = RATE_LIMIT + 1
    /\ windows[<<"mem", "a">>].ok = RATE_LIMIT

\* a check of ip made in this step when its record's resetTime has come
CheckAtOrAfterReset(ip) ==
  /\ focus = "mem"
  /\ requestCounts[ip].present
  /\ now >= requestCounts[ip].resetTime
  /\ requestCounts'[ip] # requestCounts[ip]

C16_Step ==
  \A ip \in IPs :
    CheckAtOrAfterReset(ip)
    => /\ requestCounts'[ip].count = 1
       /\ requestCounts'[ip].resetTime = now + RATE_WINDOW

\* C16 (as claimed): under SpecLimit, a check of the in-memory limiter made
\* when now >= the record's resetTime, equality included, starts a fresh
\* window: it leaves count = 1 and resetTime = now + RATE_WINDOW.
C16_FreshWindowAtReset == [][C16_Step]_vars

\* C17: under SpecLimit, every check of the in-memory limiter is counted,
\* the denied ones too: the count stored for an ip is the number of checks,
\* allowed and denied, made under the record's reset time, it goes past
\* RATE_LIMIT, and once it has, every further check of that window was
\* denied (exactly RATE_LIMIT checks of the window were allowed).
C17_DeniedIsCharged ==
  \A ip \in IPs :
    (focus = "mem" /\ requestCounts[ip].present)
    => /\ requestCounts[ip].count = windows[<<"mem", ip>>].n
       /\ requestCounts[ip].count > RATE_LIMIT =>
            /\ windows[<<"mem", ip>>].ok = RATE_LIMIT
            /\ lastCheck.key = <<"mem", ip>> => ~lastCheck.allowed

\* two denied checks, both counted
C17_Witness ==
  /\ focus = "mem"
  /\ requestCounts["a"].count = RATE_LIMIT + 2
  /\ windows[<<"mem", "a">>].n = RATE_LIMIT + 2
  /\ windows[<<"mem", "a">>].ok = RATE_LIMIT
  /\ lastCheck.key = <<"mem", "a">>
  /\ ~lastCheck.allowed

\* C18 (as claimed): every decision a checkRateLimit over the counter store
\* has returned carries, when it denies, the reason naming the violated tier
\* and that tier's reset time, and when it allows, neither of the two.
C18_DenialCarriesTier ==
  \A r \in Reqs :
    (variant \in {"chat", "tts"} /\ req[r].chk = "done")
    => IF req[r].decision.allowed
         THEN /\ req[r].decision.reason = Undefined
              /\ req[r].decision.resetTime = -1
         ELSE /\ req[r].decision.reason # Undefined
              /\ req[r].decision.resetTime >= 0

\* C19 (as claimed): no request is ever sent two responses, and a request
\* whose handler has ended, on whatever path, has been sent exactly one.
C19_ExactlyOneResponse ==
  \A r \in Reqs :
    /\ req[r].sent <= 1
    /\ req[r].pc = "done" => (req[r].sent = 1 /\ req[r].resp # NoResp)

\* request r arrives in this step / is answered 400 in this step
Arrival(r) == req[r].pc = "idle" /\ req'[r].pc # "idle"
Answered400(r) == req[r].resp.status # 400 /\ req'[r].resp.status = 400

\* OPTIONS and other non-POST requests: answered on arrival, no counter
\* touched then or later, no check started, no upstream call
NonPostFrame(r) ==
  /\ (Arrival(r) /\ req'[r].method # "POST")
       => /\ requestCounts' = requestCounts
          /\ store' = store
          /\ req'[r].pc = "done"
  /\ req'[r].method \notin {"POST", "none"}
       => /\ req'[r].chk = "none"
          /\ req'[r].charged = <<>>
          /\ ~req'[r].built
          /\ req'[r].attempts = 0

\* a POST of the in-memory handler is counted in the step it arrives
MemPostCharged(r) ==
  (variant = "mem" /\ Arrival(r) /\ req'[r].method = "POST")
  => \E ip \in IPs :
       /\ requestCounts'[ip].count = requestCounts[ip].count + 1
       /\ \A other \in IPs \ {ip} : requestCounts'[other] = requestCounts[other]

C20_StepAsClaimed ==
  \A r \in Reqs :
    /\ NonPostFrame(r)
    /\ MemPostCharged(r)
    /\ Answered400(r) =>
         IF variant = "mem" THEN requestCounts' # requestCounts
         ELSE req'[r].charged # <<>>

C20_Step ==
  \A r \in Reqs :
    /\ NonPostFrame(r)
    /\ MemPostCharged(r)
    /\ Answered400(r) =>
         /\ req'[r].chk = "done"
         /\ variant = "mem" => requestCounts' # requestCounts
         /\ variant = "tts" =>
              IF redis /\ ~req'[r].storeFailed
                THEN req'[r].charged = <<"tts_rpm", "tts_user">>
                ELSE req'[r].decision = Allowed

====
